---- MODULE Spec2Model ----
(***************************************************************************)
(* A model of ChatGateway (chat.gateway.ts): the presence registry, the    *)
(* typing tracker, the private-message delivery/read lifecycle and the     *)
(* chunked upload reassembler.                                             *)
(*                                                                         *)
(* Every handler is an async function run by a single-threaded event loop. *)
(* A handler runs synchronously up to its next `await`; there it is        *)
(* suspended (a record in `tasks`) and any other handler may run.  One     *)
(* model step is one such synchronous block.  The store operation that is  *)
(* awaited takes effect in the step that resumes the handler.              *)
(* broadcastUserList, which no handler awaits, is counted where it is      *)
(* called.                                                                 *)
(* Store and file-system operations are assumed to succeed.                *)
(* Rooms (joinRoom, leaveRoom, sendMessage) and searchUsers touch none of  *)
(* the state below and are not modelled.                                   *)
(***************************************************************************)
EXTENDS Integers, Sequences, FiniteSets, Bags, TLC

\* ---------------------------------------------------------------- bounds
\* connections opened during a run (each gets a fresh socket id)
MaxConns == 3
\* private messages created during a run
MaxMsgs == 2
\* upload sessions started during a run
MaxUploads == 1
\* largest totalChunks a start-upload declares
MaxChunks == 2
\* handlers suspended at an await at the same time
MaxTasks == 2
\* inbound events accepted during a run
MaxOps == 4

Users == {"a", "b"}
NoUser == "-"
NoSock == 0
NoMsg == 0
NoUpload == 0
NoIdx == -1

VARIABLES
  clients,        \* socket id -> [user, open]: the transport's connections
  connectedUsers, \* Map socketId -> username, in insertion order
  typingUsers,    \* Map username -> Set of usernames
  tempUploads,    \* Map uploadId -> [chunks, totalChunks]
  msgs,           \* the PrivateMessage collection: _id -> document
  dbOnline,       \* the User collection: username -> isOnline
  tasks,          \* bag of handlers suspended at an await
  events,         \* every emit to one socket so far, in order
  userLists,      \* number of userList broadcasts emitted (line 99)
  started,        \* uploadId -> the start-upload that opened it: [by, totalChunks]
  created,        \* uploadId -> ids of the messages its completions created
  completed,      \* populated index sets seen when the check of line 311 passed
  nops            \* inbound events accepted so far

vars == <<clients, connectedUsers, typingUsers, tempUploads, msgs, dbOnline,
          tasks, events, userLists, started, created, completed, nops>>

\* ------------------------------------------------------- Map (insertion order)
\* Map.prototype.get
MapGet(m, k) ==
  IF \E i \in DOMAIN m : m[i][1] = k
  THEN m[CHOOSE i \in DOMAIN m : m[i][1] = k][2]
  ELSE NoUser

\* Map.prototype.set: an existing key keeps its position
MapSet(m, k, v) ==
  IF \E i \in DOMAIN m : m[i][1] = k
  THEN [i \in DOMAIN m |-> IF m[i][1] = k THEN <<k, v>> ELSE m[i]]
  ELSE Append(m, <<k, v>>)

\* a delete that removes nothing
MapDeleteNothing(m, k) == m

\* Map.prototype.delete
MapDelete(m, k) == SelectSeq(m, LAMBDA e : e[1] # k)

\* Array.from(connectedUsers.entries()).find(([_, u]) => u === username)?.[0]
FindConnection(username) ==
  LET hits == {i \in DOMAIN connectedUsers : connectedUsers[i][2] = username}
  IN IF hits = {} THEN NoSock
     ELSE connectedUsers[CHOOSE i \in hits : \A j \in hits : i <= j][1]

\* ------------------------------------------------------------------ records
Ev(to, ev, line, mid, who, up, idx, list) ==
  [to |-> to, ev |-> ev, line |-> line, mid |-> mid, who |-> who,
   up |-> up, idx |-> idx, list |-> list]

Task(kind, pc, client, peer, mid, up, idx, rsock, snap, unread) ==
  [kind |-> kind, pc |-> pc, client |-> client, peer |-> peer, mid |-> mid,
   up |-> up, idx |-> idx, rsock |-> rsock, snap |-> snap, unread |-> unread]

Suspend(t) == tasks (+) SetToBag({t})
Resume(t) == tasks (-) SetToBag({t})
Pending == BagToSet(tasks)

UserOf(c) == clients[c].user
OpenClients == {c \in DOMAIN clients : clients[c].open}
CanAccept == nops < MaxOps
CanSuspend == BagCardinality(tasks) < MaxTasks

\* --------------------------------------------------------------------- Init
Init ==
  /\ clients = <<>>
  /\ connectedUsers = <<>>
  /\ typingUsers = <<>>
  /\ tempUploads = <<>>
  /\ msgs = <<>>
  /\ dbOnline = [u \in Users |-> FALSE]
  /\ tasks = EmptyBag
  /\ events = <<>>
  /\ userLists = 0
  /\ started = <<>>
  /\ created = <<>>
  /\ completed = {}
  /\ nops = 0

\* ----------------------------------------------------------------- presence
\* broadcastUserList: server.emit('userList', users) to every socket.  It is
\* called without await and reads only the User collection; no handler reads
\* what it emits, so its find and its emit are counted in the step that calls it
BroadcastUserList == userLists + 1

\* handleConnection up to the await of line 70
HandleConnection(username) ==
  LET c == Len(clients) + 1 IN
  /\ CanAccept /\ CanSuspend
  /\ c <= MaxConns
  /\ clients' = Append(clients, [user |-> username, open |-> TRUE])
  /\ connectedUsers' = MapSet(connectedUsers, c, username)
  /\ typingUsers' = [u \in DOMAIN typingUsers \cup {username} |->
                       IF u = username THEN {} ELSE typingUsers[u]]
  /\ tasks' = Suspend(Task("conn", "update", c, username, NoMsg, NoUpload, NoIdx, NoSock, {}, {}))
  /\ nops' = nops + 1
  /\ UNCHANGED <<started, userLists, tempUploads, msgs, dbOnline, events, created, completed>>

\* handleConnection from line 70: the update lands, broadcastUserList runs
ConnectionUpdated(t) ==
  /\ t.kind = "conn" /\ t.pc = "update"
  /\ dbOnline' = [dbOnline EXCEPT ![t.peer] = TRUE]
  /\ userLists' = BroadcastUserList
  /\ tasks' = Resume(t)
  /\ UNCHANGED <<started, clients, connectedUsers, typingUsers, tempUploads, msgs,
                 events, created, completed, nops>>

\* handleDisconnect up to the await of line 84
HandleDisconnect(c) ==
  LET username == MapGet(connectedUsers, c) IN
  /\ CanAccept /\ CanSuspend
  /\ c \in OpenClients
  /\ clients' = [clients EXCEPT ![c].open = FALSE]
  /\ tasks' = IF username # NoUser
              THEN Suspend(Task("disc", "update", c, username, NoMsg, NoUpload, NoIdx, NoSock, {}, {}))
              ELSE tasks
  /\ nops' = nops + 1
  /\ UNCHANGED <<started, userLists, connectedUsers, typingUsers, tempUploads, msgs, dbOnline,
                 events, created, completed>>

\* handleDisconnect from line 84: the update lands, the entries are deleted
DisconnectUpdated(t) ==
  /\ t.kind = "disc" /\ t.pc = "update"
  /\ dbOnline' = [dbOnline EXCEPT ![t.peer] = FALSE]
  /\ connectedUsers' = MapDelete(connectedUsers, t.client)
  /\ typingUsers' = [u \in DOMAIN typingUsers \ {t.peer} |-> typingUsers[u]]
  /\ userLists' = BroadcastUserList
  /\ tasks' = Resume(t)
  /\ UNCHANGED <<started, clients, tempUploads, msgs, events, created, completed, nops>>

\* ------------------------------------------------------------------- typing
\* a stop that leaves the typing set as it is
StopTypingKeep(sender, receiver) == typingUsers

\* handleStopTyping, lines 254-257: the typing map afterwards
StopTypingSet(sender, receiver) ==
  IF sender \in DOMAIN typingUsers
  THEN [typingUsers EXCEPT ![sender] = @ \ {receiver}]
  ELSE typingUsers

\* handleStopTyping, lines 260-265: what it emits
StopTypingEvents(sender, receiver) ==
  LET rs == FindConnection(receiver) IN
  IF rs # NoSock
  THEN <<Ev(rs, "userStoppedTyping", 264, NoMsg, sender, NoUpload, NoIdx, {})>>
  ELSE <<>>

\* handleTyping: no await, one step
HandleTyping(c, receiver) ==
  LET sender == UserOf(c)
      rs == FindConnection(receiver) IN
  /\ CanAccept
  /\ c \in OpenClients
  /\ typingUsers' = [u \in DOMAIN typingUsers \cup {sender} |->
                       IF u = sender
                       THEN (IF u \in DOMAIN typingUsers THEN typingUsers[u] ELSE {}) \cup {receiver}
                       ELSE typingUsers[u]]
  /\ events' = IF rs # NoSock
               THEN Append(events, Ev(rs, "userTyping", 244, NoMsg, sender, NoUpload, NoIdx, {}))
               ELSE events
  /\ nops' = nops + 1
  /\ UNCHANGED <<started, userLists, clients, connectedUsers, tempUploads, msgs, dbOnline, tasks, created, completed>>

\* handleStopTyping as an inbound event: no await, one step
HandleStopTyping(c, receiver) ==
  /\ CanAccept
  /\ c \in OpenClients
  /\ typingUsers' = StopTypingSet(UserOf(c), receiver)
  /\ events' = events \o StopTypingEvents(UserOf(c), receiver)
  /\ nops' = nops + 1
  /\ UNCHANGED <<started, userLists, clients, connectedUsers, tempUploads, msgs, dbOnline, tasks, created, completed>>

\* ------------------------------------------------------------ message store
\* ids given to documents so far (a document gets its _id when constructed)
UsedMids == DOMAIN msgs \cup {t.mid : t \in {x \in Pending : x.kind \in {"send", "chunk"}}}
NextMid == Cardinality(UsedMids \ {NoMsg}) + 1
\* documents created or about to be
Reserved == Cardinality(UsedMids \ {NoMsg})
              + Cardinality({t \in Pending : t.kind = "chunk" /\ t.pc = "write"})

\* new this.privateMessageModel({...}): flags default to false (schema)
NewMessage(sender, receiver, file) ==
  [sender |-> sender, receiver |-> receiver, isDelivered |-> FALSE, isRead |-> FALSE,
   deliveredAt |-> 0, readAt |-> 0, file |-> file]

\* save() of a new document: an insert
Insert(store, id, doc) == store @@ (id :> doc)

\* a save that writes the whole in-memory document over the stored one
SaveDeliveredWhole(store, id, local) == [store EXCEPT ![id] = local]

\* a save that writes nothing
SaveDeliveredNot(store, id, local) == store

\* save() of a loaded or saved document writes only the modified paths:
\* here isDelivered and deliveredAt (lines 144-146, 337-339)
SaveDelivered(store, id, local) ==
  [store EXCEPT ![id].isDelivered = local.isDelivered,
                ![id].deliveredAt = @ + 1]

\* lines 159-161: modified paths isRead and readAt
SaveRead(store, id) ==
  [store EXCEPT ![id].isRead = TRUE, ![id].readAt = @ + 1]

\* updateMany({_id: {$in: ids}}, {$set: {isDelivered: true, deliveredAt}})
UpdateManyDelivered(store, ids) ==
  [m \in DOMAIN store |->
     IF m \in ids
     THEN [store[m] EXCEPT !.isDelivered = TRUE, !.deliveredAt = @ + 1]
     ELSE store[m]]

\* the handler's in-memory document after lines 144-145 / 337-338
LocalDelivered(t) ==
  [NewMessage(UserOf(t.client), t.peer, t.kind = "chunk") EXCEPT
     !.isDelivered = TRUE, !.deliveredAt = 1]

RECURSIVE Ascending(_)
Ascending(S) ==
  IF S = {} THEN <<>>
  ELSE LET m == CHOOSE x \in S : \A y \in S : x <= y
       IN <<m>> \o Ascending(S \ {m})

\* ------------------------------------------------------- sendPrivateMessage
\* handlePrivateMessage up to the await of line 135
HandlePrivateMessage(c, receiver) ==
  /\ CanAccept /\ CanSuspend
  /\ c \in OpenClients
  /\ Reserved < MaxMsgs
  /\ tasks' = Suspend(Task("send", "save1", c, receiver, NextMid, NoUpload, NoIdx, NoSock, {}, {}))
  /\ nops' = nops + 1
  /\ UNCHANGED <<started, userLists, clients, connectedUsers, typingUsers, tempUploads, msgs,
                 dbOnline, events, created, completed>>

\* lines 149-152: echo, then handleStopTyping (which has no await)
EchoAndStopTyping(t) ==
  <<Ev(t.client, "newPrivateMessage", 149, t.mid, NoUser, NoUpload, NoIdx, {})>>
    \o StopTypingEvents(UserOf(t.client), t.peer)

\* lines 135-146 (receiver found) or 135-152 (not found)
PrivateMessageSaved(t) ==
  LET receiverSocket == FindConnection(t.peer) IN
  /\ t.kind = "send" /\ t.pc = "save1"
  /\ msgs' = Insert(msgs, t.mid, NewMessage(UserOf(t.client), t.peer, FALSE))
  /\ IF receiverSocket # NoSock
     THEN /\ events' = Append(events, Ev(receiverSocket, "newPrivateMessage", 142, t.mid,
                                         NoUser, NoUpload, NoIdx, {}))
          /\ tasks' = Resume(t) (+) SetToBag({[t EXCEPT !.pc = "save2", !.rsock = receiverSocket]})
          /\ UNCHANGED typingUsers
     ELSE /\ events' = events \o EchoAndStopTyping(t)
          /\ typingUsers' = StopTypingSet(UserOf(t.client), t.peer)
          /\ tasks' = Resume(t)
  /\ UNCHANGED <<started, userLists, clients, connectedUsers, tempUploads, dbOnline, created, completed, nops>>

\* lines 146-152
PrivateMessageDelivered(t) ==
  /\ t.kind = "send" /\ t.pc = "save2"
  /\ msgs' = SaveDelivered(msgs, t.mid, LocalDelivered(t))
  /\ events' = Append(events, Ev(t.client, "messageDelivered", 147, t.mid, NoUser, NoUpload, NoIdx, {}))
                 \o EchoAndStopTyping(t)
  /\ typingUsers' = StopTypingSet(UserOf(t.client), t.peer)
  /\ tasks' = Resume(t)
  /\ UNCHANGED <<started, userLists, clients, connectedUsers, tempUploads, dbOnline, created, completed, nops>>

\* -------------------------------------------------------- markMessageAsRead
\* handleMarkMessageAsRead up to the await of line 157
HandleMarkMessageAsRead(c, messageId) ==
  /\ CanAccept /\ CanSuspend
  /\ c \in OpenClients
  /\ tasks' = Suspend(Task("read", "find", c, NoUser, messageId, NoUpload, NoIdx, NoSock, {}, {}))
  /\ nops' = nops + 1
  /\ UNCHANGED <<started, userLists, clients, connectedUsers, typingUsers, tempUploads, msgs,
                 dbOnline, events, created, completed>>

\* a guard that lets any caller mark an existing message
MayMarkReadAnyone(t) ==
  t.mid \in DOMAIN msgs

\* line 158: the guard of the update
MayMarkRead(t) ==
  /\ t.mid \in DOMAIN msgs
  /\ msgs[t.mid].receiver = UserOf(t.client)

\* lines 157-161
MessageFound(t) ==
  /\ t.kind = "read" /\ t.pc = "find"
  /\ tasks' = IF MayMarkRead(t)
              THEN Resume(t) (+) SetToBag({[t EXCEPT !.pc = "save"]})
              ELSE Resume(t)
  /\ UNCHANGED <<started, userLists, clients, connectedUsers, typingUsers, tempUploads, msgs,
                 dbOnline, events, created, completed, nops>>

\* lines 161-172
MessageRead(t) ==
  LET senderSocket == FindConnection(msgs[t.mid].sender) IN
  /\ t.kind = "read" /\ t.pc = "save"
  /\ msgs' = SaveRead(msgs, t.mid)
  /\ events' = IF senderSocket # NoSock
               THEN Append(events, Ev(senderSocket, "messageRead", 168, t.mid, NoUser, NoUpload, NoIdx, {}))
               ELSE events
  /\ tasks' = Resume(t)
  /\ UNCHANGED <<started, userLists, clients, connectedUsers, typingUsers, tempUploads, dbOnline,
                 created, completed, nops>>

\* -------------------------------------------------------- getPrivateMessages
\* handleGetPrivateMessages up to the await of line 178
HandleGetPrivateMessages(c, otherUser) ==
  /\ CanAccept /\ CanSuspend
  /\ c \in OpenClients
  /\ tasks' = Suspend(Task("get", "find", c, otherUser, NoMsg, NoUpload, NoIdx, NoSock, {}, {}))
  /\ nops' = nops + 1
  /\ UNCHANGED <<started, userLists, clients, connectedUsers, typingUsers, tempUploads, msgs,
                 dbOnline, events, created, completed>>

\* the filter of lines 178-183
Conversation(me, otherUser) ==
  {m \in DOMAIN msgs :
     \/ msgs[m].sender = me /\ msgs[m].receiver = otherUser
     \/ msgs[m].sender = otherUser /\ msgs[m].receiver = me}

\* lines 186-188
UnreadMessages(me, found) ==
  {m \in found : ~msgs[m].isDelivered /\ msgs[m].receiver = me}

\* client.emit('privateMessages', messages): the documents as they were loaded
PrivateMessagesEvent(t, snap) ==
  Ev(t.client, "privateMessages", 214, NoMsg, NoUser, NoUpload, NoIdx, snap)

\* lines 178-191 (something to deliver) or 178-214 (nothing)
MessagesFound(t) ==
  LET me == UserOf(t.client)
      found == Conversation(me, t.peer)
      snap == {<<m, msgs[m].isDelivered>> : m \in found}
      unreadMessages == UnreadMessages(me, found) IN
  /\ t.kind = "get" /\ t.pc = "find"
  /\ IF unreadMessages # {}
     THEN /\ tasks' = Resume(t) (+) SetToBag({[t EXCEPT !.pc = "update", !.snap = snap,
                                                        !.unread = unreadMessages]})
          /\ UNCHANGED events
     ELSE /\ events' = Append(events, PrivateMessagesEvent(t, snap))
          /\ tasks' = Resume(t)
  /\ UNCHANGED <<started, userLists, clients, connectedUsers, typingUsers, tempUploads, msgs,
                 dbOnline, created, completed, nops>>

\* lines 202-211: one messageDelivered per message whose sender has a socket
RECURSIVE DeliveredNotices(_)
DeliveredNotices(ids) ==
  IF ids = <<>> THEN <<>>
  ELSE LET senderSocket == FindConnection(msgs[Head(ids)].sender)
       IN (IF senderSocket # NoSock
           THEN <<Ev(senderSocket, "messageDelivered", 207, Head(ids), NoUser, NoUpload, NoIdx, {})>>
           ELSE <<>>) \o DeliveredNotices(Tail(ids))

\* lines 191-214
MessagesDelivered(t) ==
  /\ t.kind = "get" /\ t.pc = "update"
  /\ msgs' = UpdateManyDelivered(msgs, t.unread)
  /\ events' = (events \o DeliveredNotices(Ascending(t.unread)))
                 \o <<PrivateMessagesEvent(t, t.snap)>>
  /\ tasks' = Resume(t)
  /\ UNCHANGED <<started, userLists, clients, connectedUsers, typingUsers, tempUploads, dbOnline,
                 created, completed, nops>>

\* ------------------------------------------------------------------ uploads
\* a delete that keeps the session
DropNothing(uploads, uploadId) == uploads

\* Map.prototype.delete on tempUploads
DropUpload(uploads, uploadId) ==
  [u \in DOMAIN uploads \ {uploadId} |-> uploads[u]]

\* an id no start-upload ever issued
UnknownUpload == MaxUploads + 1

\* handleStartFileUpload: no await, one step; the id is fresh.
\* Of the payload only totalChunks is read
HandleStartFileUpload(c, totalChunks) ==
  LET uploadId == Len(started) + 1 IN
  /\ CanAccept
  /\ c \in OpenClients
  /\ uploadId <= MaxUploads
  /\ tempUploads' = tempUploads @@ (uploadId :> [chunks |-> {}, totalChunks |-> totalChunks])
  /\ started' = Append(started, [by |-> UserOf(c), totalChunks |-> totalChunks])
  /\ created' = Append(created, {})
  /\ events' = Append(events, Ev(c, "uploadStarted", 283, NoMsg, NoUser, uploadId, NoIdx, {}))
  /\ nops' = nops + 1
  /\ UNCHANGED <<userLists, clients, connectedUsers, typingUsers, msgs, dbOnline, tasks, completed>>

\* upload.chunks[i] = data: a negative index sets a property, not an element
Populated(chunks) == {i \in chunks : i >= 0}

\* a check on the indices 0..totalChunks-1
AllReceivedByIndex(chunks, totalChunks) ==
  \A i \in 0..(totalChunks - 1) : i \in chunks

\* a check that passes one chunk early
AllReceivedEarly(chunks, totalChunks) ==
  Cardinality(Populated(chunks)) + 1 >= totalChunks

\* line 311: upload.chunks.filter(Boolean).length === upload.totalChunks
AllReceived(chunks, totalChunks) ==
  Cardinality(Populated(chunks)) = totalChunks

\* Buffer.concat(upload.chunks) throws on a hole of the array
ConcatThrows(chunks) ==
  \E i \in Populated(chunks) : \E j \in 0..i : j \notin chunks

UploadError(c, uploadId) ==
  Ev(c, "uploadError", 355, NoMsg, NoUser, uploadId, NoIdx, {})

ChunkReceived(c, uploadId, chunkIndex) ==
  Ev(c, "chunkReceived", 349, NoMsg, NoUser, uploadId, chunkIndex, {})

\* handleUploadChunk up to the await of line 317, or to its end.
\* wellFormed: payload.chunk has a comma, so that split(',')[1] is a string
HandleUploadChunk(c, uploadId, chunkIndex, receiver, wellFormed) ==
  LET uploads == tempUploads IN
  /\ CanAccept
  /\ c \in OpenClients
  /\ IF uploadId \notin DOMAIN uploads \/ ~wellFormed
     THEN \* lines 302-304 or 307 throw: caught at line 353
          /\ events' = Append(events, UploadError(c, uploadId))
          /\ tempUploads' = uploads
          /\ UNCHANGED <<started, tasks, completed>>
     ELSE LET chunks == uploads[uploadId].chunks \cup {chunkIndex}
              totalChunks == uploads[uploadId].totalChunks IN
          /\ tempUploads' = [uploads EXCEPT ![uploadId].chunks = chunks]
          /\ IF AllReceived(chunks, totalChunks)
             THEN /\ completed' = completed \cup {<<uploadId, Populated(chunks), totalChunks>>}
                  /\ IF ConcatThrows(chunks)
                     THEN /\ events' = Append(events, UploadError(c, uploadId))
                          /\ UNCHANGED tasks
                     ELSE /\ CanSuspend
                          /\ Reserved < MaxMsgs
                          /\ tasks' = Suspend(Task("chunk", "write", c, receiver, NoMsg,
                                                   uploadId, chunkIndex, NoSock, {}, {}))
                          /\ UNCHANGED events
             ELSE /\ events' = Append(events, ChunkReceived(c, uploadId, chunkIndex))
                  /\ UNCHANGED <<started, tasks, completed>>
  /\ nops' = nops + 1
  /\ UNCHANGED <<started, userLists, clients, connectedUsers, typingUsers, msgs, dbOnline, created>>

\* lines 317-329: the file is written, the message document is constructed
FileWritten(t) ==
  /\ t.kind = "chunk" /\ t.pc = "write"
  /\ tasks' = Resume(t) (+) SetToBag({[t EXCEPT !.pc = "save1", !.mid = NextMid]})
  /\ UNCHANGED <<started, userLists, clients, connectedUsers, typingUsers, tempUploads, msgs,
                 dbOnline, events, created, completed, nops>>

\* lines 342-352: echo, clean up, acknowledge
EchoAndCleanUp(t) ==
  <<Ev(t.client, "newPrivateMessage", 342, t.mid, NoUser, NoUpload, NoIdx, {}),
    ChunkReceived(t.client, t.up, t.idx)>>

\* lines 329-339 (receiver found) or 329-352 (not found)
FileMessageSaved(t) ==
  LET receiverSocket == FindConnection(t.peer) IN
  /\ t.kind = "chunk" /\ t.pc = "save1"
  /\ msgs' = Insert(msgs, t.mid, NewMessage(UserOf(t.client), t.peer, TRUE))
  /\ created' = [created EXCEPT ![t.up] = @ \cup {t.mid}]
  /\ IF receiverSocket # NoSock
     THEN /\ events' = Append(events, Ev(receiverSocket, "newPrivateMessage", 336, t.mid,
                                         NoUser, NoUpload, NoIdx, {}))
          /\ tasks' = Resume(t) (+) SetToBag({[t EXCEPT !.pc = "save2", !.rsock = receiverSocket]})
          /\ UNCHANGED tempUploads
     ELSE /\ events' = events \o EchoAndCleanUp(t)
          /\ tempUploads' = DropUpload(tempUploads, t.up)
          /\ tasks' = Resume(t)
  /\ UNCHANGED <<started, userLists, clients, connectedUsers, typingUsers, dbOnline, completed, nops>>

\* lines 339-352
FileMessageDelivered(t) ==
  /\ t.kind = "chunk" /\ t.pc = "save2"
  /\ msgs' = SaveDelivered(msgs, t.mid, LocalDelivered(t))
  /\ events' = Append(events, Ev(t.client, "messageDelivered", 340, t.mid, NoUser, NoUpload, NoIdx, {}))
                 \o EchoAndCleanUp(t)
  /\ tempUploads' = DropUpload(tempUploads, t.up)
  /\ tasks' = Resume(t)
  /\ UNCHANGED <<started, userLists, clients, connectedUsers, typingUsers, dbOnline, created, completed, nops>>

\* a cancel that also aborts the suspended completion of the session
HandleCancelUploadAborting(c, uploadId) ==
  /\ CanAccept
  /\ c \in OpenClients
  /\ tempUploads' = DropUpload(tempUploads, uploadId)
  /\ tasks' = [t \in {x \in Pending : ~(x.kind = "chunk" /\ x.up = uploadId)} |-> tasks[t]]
  /\ events' = Append(events, Ev(c, "uploadCancelled", 365, NoMsg, NoUser, uploadId, NoIdx, {}))
  /\ nops' = nops + 1
  /\ UNCHANGED <<started, userLists, clients, connectedUsers, typingUsers, msgs, dbOnline,
                 created, completed>>

\* handleCancelUpload: no await, one step
HandleCancelUpload(c, uploadId) ==
  /\ CanAccept
  /\ c \in OpenClients
  /\ tempUploads' = DropUpload(tempUploads, uploadId)
  /\ events' = Append(events, Ev(c, "uploadCancelled", 365, NoMsg, NoUser, uploadId, NoIdx, {}))
  /\ nops' = nops + 1
  /\ UNCHANGED <<started, userLists, clients, connectedUsers, typingUsers, msgs, dbOnline, tasks,
                 created, completed>>

Connect == \E u \in Users : HandleConnection(u)
ConnectDone == \E t \in Pending : ConnectionUpdated(t)
Disconnect == \E c \in DOMAIN clients : HandleDisconnect(c)
DisconnectDone == \E t \in Pending : DisconnectUpdated(t)
Typing == \E c \in DOMAIN clients, r \in Users : HandleTyping(c, r)
StopTyping == \E c \in DOMAIN clients, r \in Users : HandleStopTyping(c, r)
Send == \E c \in DOMAIN clients, r \in Users : HandlePrivateMessage(c, r)
SendSaved == \E t \in Pending : PrivateMessageSaved(t)
SendDelivered == \E t \in Pending : PrivateMessageDelivered(t)
MarkRead == \E c \in DOMAIN clients, m \in 1..MaxMsgs : HandleMarkMessageAsRead(c, m)
MarkReadFound == \E t \in Pending : MessageFound(t)
MarkReadSaved == \E t \in Pending : MessageRead(t)
GetMessages == \E c \in DOMAIN clients, o \in Users : HandleGetPrivateMessages(c, o)
GetFound == \E t \in Pending : MessagesFound(t)
GetDelivered == \E t \in Pending : MessagesDelivered(t)

NextPresence == Connect \/ ConnectDone \/ Disconnect \/ DisconnectDone

SpecPresence == Init /\ [][NextPresence]_vars

NextChat ==
  \/ Connect \/ ConnectDone \/ Disconnect \/ DisconnectDone
  \/ Send \/ SendSaved \/ SendDelivered
  \/ MarkRead \/ MarkReadFound \/ MarkReadSaved
  \/ GetMessages \/ GetFound \/ GetDelivered

SpecChat == Init /\ [][NextChat]_vars

NextTyping ==
  \/ Connect \/ ConnectDone \/ Disconnect \/ DisconnectDone
  \/ Typing \/ StopTyping
  \/ Send \/ SendSaved \/ SendDelivered

SpecTyping == Init /\ [][NextTyping]_vars

UploadIds == (1..Len(started)) \cup {UnknownUpload}
StartUpload == \E c \in DOMAIN clients, n \in 1..MaxChunks : HandleStartFileUpload(c, n)
\* a chunk that does not decode fails whatever its index and receiver
UploadChunk ==
  \E c \in DOMAIN clients, u \in UploadIds :
    \/ \E i \in -1..MaxChunks, r \in Users : HandleUploadChunk(c, u, i, r, TRUE)
    \/ HandleUploadChunk(c, u, 0, UserOf(c), FALSE)
ChunkWritten == \E t \in Pending : FileWritten(t)
ChunkSaved == \E t \in Pending : FileMessageSaved(t)
ChunkDelivered == \E t \in Pending : FileMessageDelivered(t)
CancelUpload == \E c \in DOMAIN clients, u \in UploadIds : HandleCancelUpload(c, u)

NextUpload ==
  \/ Connect \/ ConnectDone \/ Disconnect \/ DisconnectDone
  \/ StartUpload \/ UploadChunk \/ ChunkWritten \/ ChunkSaved \/ ChunkDelivered
  \/ CancelUpload

SpecUpload == Init /\ [][NextUpload]_vars

NextLifecycle ==
  \/ Connect \/ ConnectDone \/ Disconnect \/ DisconnectDone
  \/ Send \/ SendSaved \/ SendDelivered
  \/ MarkRead \/ MarkReadFound \/ MarkReadSaved
  \/ GetMessages \/ GetFound \/ GetDelivered
  \/ StartUpload \/ UploadChunk \/ ChunkWritten \/ ChunkSaved \/ ChunkDelivered

SpecLifecycle == Init /\ [][NextLifecycle]_vars

Next ==
  \/ Connect \/ ConnectDone \/ Disconnect \/ DisconnectDone
  \/ Typing \/ StopTyping
  \/ Send \/ SendSaved \/ SendDelivered
  \/ MarkRead \/ MarkReadFound \/ MarkReadSaved
  \/ GetMessages \/ GetFound \/ GetDelivered
  \/ StartUpload \/ UploadChunk \/ ChunkWritten \/ ChunkSaved \/ ChunkDelivered
  \/ CancelUpload

Spec == Init /\ [][Next]_vars

\* =================================================================== claims
\* positions of the log
Positions == DOMAIN events

\* ----------------------------------------------------------------------- C1
\* C1: the presence registry never holds two connection identities for one
\* username.
OneConnectionPerUser ==
  \A i, j \in DOMAIN connectedUsers :
    connectedUsers[i][2] = connectedUsers[j][2] => i = j

\* ---------------------------------------------------------------------- C10
\* the disconnect handler of c has run to its end
Unregistered(c) ==
  /\ ~clients[c].open
  /\ \A t \in Pending : ~(t.kind = "disc" /\ t.client = c)

\* C10: whenever findConnection resolves a username to a connection, the
\* reverse lookup of that connection gives the same username, and a connection
\* whose unregistration has completed is resolved for no username.
RegistryConsistent ==
  /\ \A u \in Users :
       FindConnection(u) # NoSock => MapGet(connectedUsers, FindConnection(u)) = u
  /\ \A c \in DOMAIN clients :
       Unregistered(c) => \A u \in Users : FindConnection(u) # c

\* a connection of a user was unregistered while that user is still resolved
\* through another connection
RegistryWitness ==
  \E c, d \in DOMAIN clients :
    /\ c # d /\ Unregistered(c)
    /\ FindConnection(UserOf(c)) = d

\* ----------------------------------------------------------------------- C3
\* C3: whenever the completion check of upload-chunk passes, every index in
\* [0, totalChunks) of the session is populated.
CompletionNeedsEveryIndex ==
  \A e \in completed : AllReceivedByIndex(e[2], e[3])

\* ----------------------------------------------------------------------- C2
ChunkTasks(u) == {t \in Pending : t.kind = "chunk" /\ t.up = u}
\* chunkReceived events of session u, as log positions
AckPositions(u) == {i \in Positions : events[i].ev = "chunkReceived" /\ events[i].up = u}
Failed(u) ==
  \E i \in Positions : events[i].up = u /\ events[i].ev \in {"uploadError", "uploadCancelled"}
\* upload-chunk calls of session u so far: those acknowledged and those suspended
Calls(u) ==
  Cardinality(AckPositions(u))
    + BagCardinality([t \in ChunkTasks(u) |-> CopiesIn(t, tasks)])
CallIndices(u) == {events[i].idx : i \in AckPositions(u)} \cup {t.idx : t \in ChunkTasks(u)}
\* every call so far carried another index of [0, totalChunks), none failed,
\* the session was not cancelled
DistinctInRange(u) ==
  /\ ~Failed(u)
  /\ Cardinality(CallIndices(u)) = Calls(u)
  /\ CallIndices(u) \subseteq 0..(started[u].totalChunks - 1)
\* newPrivateMessage events sent to a receiver for message m by the upload path
FileNotices(m) ==
  {i \in Positions : events[i].ev = "newPrivateMessage" /\ events[i].line = 336
                     /\ events[i].mid = m}
Completions(u) == {e \in completed : e[1] = u}

ExactlyOneCompletion ==
  \A u \in DOMAIN started :
    DistinctInRange(u) =>
      LET n == started[u].totalChunks IN
      /\ Calls(u) < n =>
           /\ ChunkTasks(u) = {} /\ created[u] = {} /\ Completions(u) = {}
           /\ u \in DOMAIN tempUploads
      /\ Calls(u) = n =>
           /\ Cardinality(Completions(u)) = 1
           /\ Cardinality(created[u]) <= 1
           /\ \A m \in created[u] :
                /\ msgs[m].file
                /\ Cardinality(FileNotices(m)) <= 1
                /\ \A i \in FileNotices(m) : UserOf(events[i].to) = msgs[m].receiver
           /\ Cardinality(AckPositions(u)) = n =>
                /\ ChunkTasks(u) = {}
                /\ Cardinality(created[u]) = 1
                /\ u \notin DOMAIN tempUploads
                /\ \A m \in created[u] :
                     msgs[m].isDelivered <=> Cardinality(FileNotices(m)) = 1

\* the save of the file message finds the receiver in the registry: the
\* receiver's connection is sent the message
ReachableReceiverNotified ==
  \A t \in Pending :
    (FileMessageSaved(t) /\ FindConnection(t.peer) # NoSock) =>
      /\ Len(events') = Len(events) + 1
      /\ events'[Len(events')].ev = "newPrivateMessage"
      /\ events'[Len(events')].mid = t.mid
      /\ events'[Len(events')].to = FindConnection(t.peer)

\* C2: when the N chunks of a session arrive with distinct indices of
\* [0, N), in any order, the completion runs once, on the N-th call and not
\* before; it creates one file message, and a receiver found in the registry
\* is sent exactly one newPrivateMessage for it.
UploadCompletesOnce == []ExactlyOneCompletion /\ [][ReachableReceiverNotified]_vars

\* a two-chunk session whose chunks came in reverse order completed with one
\* message, sent to the receiver
UploadWitness ==
  \E u \in DOMAIN started :
    /\ started[u].totalChunks = 2 /\ DistinctInRange(u)
    /\ \E i, j \in AckPositions(u) : i < j /\ events[i].idx = 1 /\ events[j].idx = 0
    /\ \E m \in created[u] : Cardinality(FileNotices(m)) = 1 /\ msgs[m].isDelivered

\* ----------------------------------------------------------------------- C4
\* C4: a stored message keeps isDelivered and isRead once they are true, over
\* every step of every handler.
FlagsMonotone ==
  [][\A m \in DOMAIN msgs :
       /\ m \in DOMAIN msgs'
       /\ msgs[m].isDelivered => msgs'[m].isDelivered
       /\ msgs[m].isRead => msgs'[m].isRead]_vars

\* a message was marked read while its send handler awaited the second save,
\* and that save has landed since
FlagsWitness ==
  \E m \in DOMAIN msgs :
    /\ msgs[m].isRead /\ msgs[m].isDelivered
    /\ \E i, j \in Positions :
         /\ i < j
         /\ events[i].ev = "messageRead" /\ events[i].mid = m
         /\ events[j].ev = "messageDelivered" /\ events[j].line \in {147, 340}
         /\ events[j].mid = m

\* ----------------------------------------------------------------------- C5
\* events about message m emitted at source line l
At(l, m) == {i \in Positions : events[i].line = l /\ events[i].mid = m}

\* the sender of a message whose receiver was not found gets the echo and no
\* messageDelivered from the send
EchoOnlyWhenUnreachable ==
  \A m \in DOMAIN msgs :
    (At(149, m) # {} /\ At(142, m) = {}) => At(147, m) = {}

\* a message that was sent while its receiver had no registry entry is marked
\* delivered in the privateMessages reply to that receiver
ReplyShowsDelivered ==
  \A i \in Positions :
    events[i].ev = "privateMessages" =>
      \A e \in events[i].list :
        (/\ msgs[e[1]].receiver = UserOf(events[i].to)
         /\ At(142, e[1]) = {}
         /\ \E k \in At(149, e[1]) : k < i) => e[2]

\* C5: a message sent to a user outside the registry is echoed without a
\* messageDelivered, and when that user fetches the conversation the copy in
\* the reply has isDelivered = true.
UnreachableThenFetched == EchoOnlyWhenUnreachable /\ ReplyShowsDelivered

\* ----------------------------------------------------------------------- C6
\* C6: for a message from one user to another that was delivered at send
\* time, no messageRead is emitted before the messageDelivered of the same
\* message.
DeliveredBeforeRead ==
  \A i \in Positions :
    (/\ events[i].ev = "messageRead"
     /\ At(142, events[i].mid) # {}
     /\ msgs[events[i].mid].sender # msgs[events[i].mid].receiver) =>
      \E j \in Positions :
        j < i /\ events[j].ev = "messageDelivered" /\ events[j].mid = events[i].mid

\* ----------------------------------------------------------------------- C9
\* the save of a message finds the receiver in the registry (the sender has
\* an entry too): the receiver's connection is sent the message
ReceiverNotified ==
  \A t \in Pending :
    (/\ PrivateMessageSaved(t)
     /\ FindConnection(t.peer) # NoSock
     /\ MapGet(connectedUsers, t.client) # NoUser) =>
      /\ events' = Append(events, Ev(FindConnection(t.peer), "newPrivateMessage", 142,
                                     t.mid, NoUser, NoUpload, NoIdx, {}))
      /\ UserOf(FindConnection(t.peer)) = t.peer
      /\ \E x \in BagToSet(tasks') : x.kind = "send" /\ x.pc = "save2" /\ x.mid = t.mid

\* once the handler of such a message has ended, its sender's connection was
\* sent messageDelivered and then the echo, and the stored message is delivered
SenderNotified ==
  \A m \in DOMAIN msgs :
    \A k \in At(149, m) :
      At(142, m) # {} =>
        /\ msgs[m].isDelivered
        /\ \E i \in At(142, m), j \in At(147, m) :
             /\ i < j /\ j < k
             /\ events[j].ev = "messageDelivered"
             /\ events[j].to = events[k].to
             /\ UserOf(events[k].to) = msgs[m].sender

\* C9: a private message between two users of the registry reaches the
\* receiver's connection as newPrivateMessage; the sender's connection gets
\* messageDelivered and the echo for the same id; the stored message ends
\* with isDelivered = true.
BothReachable == []SenderNotified /\ [][ReceiverNotified]_vars

\* such an exchange between two different users has ended
BothReachableWitness ==
  \E m \in DOMAIN msgs :
    /\ msgs[m].sender # msgs[m].receiver
    /\ msgs[m].isDelivered
    /\ \E i \in At(142, m), j \in At(147, m), k \in At(149, m) :
         /\ i < j /\ j < k
         /\ UserOf(events[i].to) = msgs[m].receiver
         /\ events[j].to = events[k].to

\* ----------------------------------------------------------------------- C7
\* a started session was cancelled
Cancelled(u) ==
  \E i, j \in Positions :
    /\ i < j
    /\ events[i].ev = "uploadStarted" /\ events[i].up = u
    /\ events[j].ev = "uploadCancelled" /\ events[j].up = u

ChunkRejected(u) ==
  (\E c \in DOMAIN clients, i \in -1..MaxChunks, r \in Users, ok \in BOOLEAN :
      HandleUploadChunk(c, u, i, r, ok)) =>
    /\ \E c \in DOMAIN clients : events' = Append(events, UploadError(c, u))
    /\ UNCHANGED <<tempUploads, msgs, tasks, created, completed>>

CancelledGone ==
  \A u \in DOMAIN started : Cancelled(u) => u \notin DOMAIN tempUploads

\* C7: after cancel-upload(u), an upload-chunk for u only emits uploadError
\* with u: nothing is stored, acknowledged or created, and the session does
\* not come back.
CancelledStaysGone ==
  /\ []CancelledGone
  /\ [][\A u \in DOMAIN started : Cancelled(u) => ChunkRejected(u)]_vars

\* a chunk was refused after the cancellation of its session
CancelledWitness ==
  \E u \in DOMAIN started :
    /\ Cancelled(u)
    /\ \E j, k \in Positions :
         /\ j < k
         /\ events[j].ev = "uploadCancelled" /\ events[j].up = u
         /\ events[k].ev = "uploadError" /\ events[k].up = u

\* ----------------------------------------------------------------------- C8
\* the connection rs was sent userTyping by sender before message m
TypedBefore(rs, sender, m) ==
  \E i, j \in Positions :
    /\ i < j
    /\ events[i].ev = "userTyping" /\ events[i].to = rs /\ events[i].who = sender
    /\ events[j].line = 142 /\ events[j].to = rs /\ events[j].mid = m

StopAfterSend ==
  \A t \in Pending :
    (/\ PrivateMessageDelivered(t)
     /\ FindConnection(t.peer) = t.rsock
     /\ TypedBefore(t.rsock, UserOf(t.client), t.mid)) =>
      /\ t.mid \in DOMAIN msgs
      /\ events'[Len(events')] =
           Ev(t.rsock, "userStoppedTyping", 264, NoMsg, UserOf(t.client), NoUpload, NoIdx, {})
      /\ UserOf(t.client) \in DOMAIN typingUsers' =>
           t.peer \notin typingUsers'[UserOf(t.client)]

\* C8: a recipient's connection that was sent userTyping and then the message
\* is sent userStoppedTyping when the send ends, with no stop-typing from the
\* client; the message is saved by then and the sender's typing set no longer
\* holds the recipient.
TypingStopsOnSend == [][StopAfterSend]_vars

\* userTyping, the message and userStoppedTyping reached one connection in
\* that order, and the typing relation is gone
TypingWitness ==
  \E m \in DOMAIN msgs :
    \E i, j, k \in Positions :
      /\ i < j /\ j < k
      /\ events[i].ev = "userTyping" /\ events[i].who = msgs[m].sender
      /\ events[j].line = 142 /\ events[j].mid = m
      /\ events[k].ev = "userStoppedTyping" /\ events[k].who = msgs[m].sender
      /\ events[i].to = events[j].to /\ events[j].to = events[k].to
      /\ msgs[m].sender # msgs[m].receiver
      /\ msgs[m].sender \in DOMAIN typingUsers
      /\ msgs[m].receiver \notin typingUsers[msgs[m].sender]
      /\ \A x \in i..k : events[x].line # 264 \/ x = k

\* ---------------------------------------------------------------------- C11
\* messageDelivered events for message m
DeliveredEvents(m) ==
  {i \in Positions : events[i].ev = "messageDelivered" /\ events[i].mid = m}

\* C11: for every stored message the delivery timestamp is written at most
\* once and at most one messageDelivered event carries its id, whatever the
\* interleaving of send-private-message and get-private-messages.
DeliveredAtMostOnce ==
  \A m \in DOMAIN msgs :
    /\ msgs[m].deliveredAt <= 1
    /\ Cardinality(DeliveredEvents(m)) <= 1

\* ---------------------------------------------------------------------- C12
\* C12: no stored message whose send handler has ended is read without being
\* delivered: isRead = true implies isDelivered = true.
ReadImpliesDelivered ==
  \A m \in DOMAIN msgs :
    (msgs[m].isRead /\ At(149, m) # {}) => msgs[m].isDelivered

\* ---------------------------------------------------------------------- C13
\* connections with a registry entry for username
Registered(username) ==
  {connectedUsers[i][1] : i \in {j \in DOMAIN connectedUsers : connectedUsers[j][2] = username}}

\* C13: a username with registry entries is resolved to the connection that
\* registered last (socket ids grow with the order of connection), so that
\* everything addressed to the user goes to the newer connection.
NewestConnectionResolves ==
  \A u \in Users :
    Registered(u) # {} =>
      \A c \in Registered(u) : c <= FindConnection(u)

\* ---------------------------------------------------------------------- C14
CancelPositions(u) ==
  {i \in Positions : events[i].ev = "uploadCancelled" /\ events[i].up = u}

\* every upload-chunk call of u so far carried another index of
\* [0, totalChunks) and none was refused
DistinctCalls(u) ==
  /\ \A i \in Positions : ~(events[i].ev = "uploadError" /\ events[i].up = u)
  /\ Cardinality(CallIndices(u)) = Calls(u)
  /\ CallIndices(u) \subseteq 0..(started[u].totalChunks - 1)

\* the completing handler of u has run to its end: all its calls are acknowledged
CompletionEnded(u) ==
  /\ Completions(u) # {}
  /\ Cardinality(AckPositions(u)) = started[u].totalChunks

\* u was cancelled after its completion had begun and before it ended
CancelledDuringCompletion(u) ==
  /\ DistinctCalls(u)
  /\ Completions(u) # {}
  /\ \E j \in CancelPositions(u) :
       CompletionEnded(u) => \E k \in AckPositions(u) : j < k

\* such a completion creates at most one file message, and once it has ended
\* exactly one, sent as any message is: to the receiver's connection if there
\* is one (and then marked delivered), and echoed to the sender
CompletionSurvivesCancel ==
  \A u \in DOMAIN started :
    CancelledDuringCompletion(u) =>
      /\ Cardinality(created[u]) <= 1
      /\ ~CompletionEnded(u) => ChunkTasks(u) # {}
      /\ CompletionEnded(u) =>
           /\ Cardinality(created[u]) = 1
           /\ \A m \in created[u] :
                /\ msgs[m].file
                /\ At(342, m) # {}
                /\ Cardinality(FileNotices(m)) <= 1
                /\ msgs[m].isDelivered <=> Cardinality(FileNotices(m)) = 1

\* a cancel leaves suspended handlers and the message store alone
CancelKeepsCompletion ==
  \A c \in DOMAIN clients, u \in UploadIds :
    HandleCancelUpload(c, u) => UNCHANGED <<tasks, msgs, created, completed>>

\* a cancel of a session that completed and was removed only emits
\* uploadCancelled to the caller
CancelAfterCompletionIsNoOp ==
  \A c \in DOMAIN clients, u \in DOMAIN started :
    (HandleCancelUpload(c, u) /\ created[u] # {} /\ u \notin DOMAIN tempUploads) =>
      /\ events' = Append(events, Ev(c, "uploadCancelled", 365, NoMsg, NoUser, u, NoIdx, {}))
      /\ UNCHANGED <<tempUploads, msgs, tasks, created, completed, started,
                     connectedUsers, typingUsers, dbOnline, clients, userLists>>

\* C14: a cancel-upload processed while the completing upload-chunk handler
\* is suspended does not stop the completion, which creates exactly one file
\* message and sends it; a cancel-upload for a session that has completed and
\* been removed changes nothing and answers uploadCancelled, not uploadError.
CancelRacesCompletion ==
  /\ []CompletionSurvivesCancel
  /\ [][CancelKeepsCompletion /\ CancelAfterCompletionIsNoOp]_vars

\* a session was cancelled while its completion was suspended, and the
\* completion ended with one message
CancelRaceWitness ==
  \E u \in DOMAIN started :
    /\ CancelledDuringCompletion(u) /\ CompletionEnded(u)
    /\ Cardinality(created[u]) = 1
    /\ \E j \in CancelPositions(u), k \in AckPositions(u) : j < k

\* a session was cancelled after it had completed and been removed
CancelAfterCompletion ==
  \E u \in DOMAIN started :
    /\ CompletionEnded(u) /\ created[u] # {} /\ u \notin DOMAIN tempUploads
    /\ \E j \in CancelPositions(u) : \A k \in AckPositions(u) : k < j

\* ---------------------------------------------------------------------- C15
\* connections whose disconnect handler has begun
Disconnected == DOMAIN clients \ OpenClients

\* a connection whose disconnect handler has begun is resolved for no username
DisconnectedNotResolved ==
  \A u \in Users : FindConnection(u) \notin Disconnected

\* the lookup of a send never finds such a connection, so the send does not
\* go on to the second save
SendSkipsDisconnected ==
  \A t \in Pending :
    PrivateMessageSaved(t) =>
      /\ FindConnection(t.peer) \notin Disconnected
      /\ \A x \in BagToSet(tasks') :
           (x.kind = "send" /\ x.pc = "save2" /\ x.mid = t.mid) => x.rsock \notin Disconnected

\* C15: a disconnect removes the registry entry before its handler yields:
\* while the handler is suspended at the store update no lookup finds the
\* connection, and a private message sent in that window is not marked
\* delivered.
DisconnectUnregistersFirst ==
  /\ []DisconnectedNotResolved
  /\ [][SendSkipsDisconnected]_vars

\* ---------------------------------------------------------------------- C16
\* the typing relation: sender is typing to recipient
IsTyping(map, sender, recipient) ==
  sender \in DOMAIN map /\ recipient \in map[sender]

\* the step is a stop-typing of sender for recipient, or the end of a send
\* from sender to recipient
StopsTyping(sender, recipient) ==
  \/ \E c \in DOMAIN clients :
       UserOf(c) = sender /\ HandleStopTyping(c, recipient)
  \/ \E t \in Pending :
       /\ UserOf(t.client) = sender /\ t.peer = recipient
       /\ PrivateMessageSaved(t) \/ PrivateMessageDelivered(t)

\* C16: a typing relation (sender, recipient) leaves the sender's typing set
\* only in a stop-typing(sender, recipient) step or when a message from sender
\* to recipient is sent; no connect, disconnect or other event removes it.
TypingRemovedOnlyByStop ==
  [][\A s, r \in Users :
       (IsTyping(typingUsers, s, r) /\ ~IsTyping(typingUsers', s, r)) => StopsTyping(s, r)]_vars

\* ---------------------------------------------------------------------- C17
\* the steps of a mark-message-read that is refused at line 158 leave the
\* store and the log as they are, and the handler ends there
RefusedChangesNothing ==
  /\ \A c \in DOMAIN clients, m \in 1..MaxMsgs :
       HandleMarkMessageAsRead(c, m) => UNCHANGED <<msgs, events>>
  /\ \A t \in Pending :
       (MessageFound(t) /\ ~(t.mid \in DOMAIN msgs /\ msgs[t.mid].receiver = UserOf(t.client))) =>
         /\ UNCHANGED <<msgs, events, connectedUsers, typingUsers, tempUploads, dbOnline>>
         /\ tasks' = Resume(t)

\* isRead and readAt change, and messageRead is emitted, only in the save of
\* a mark-message-read issued by the message's receiver
OnlyReceiverMarks ==
  /\ \A m \in DOMAIN msgs :
       (msgs'[m].isRead # msgs[m].isRead \/ msgs'[m].readAt # msgs[m].readAt) =>
         \E t \in Pending :
           MessageRead(t) /\ t.mid = m /\ UserOf(t.client) = msgs[m].receiver
  /\ (\E i \in DOMAIN events' : i > Len(events) /\ events'[i].ev = "messageRead") =>
       \E t \in Pending : MessageRead(t) /\ UserOf(t.client) = msgs[t.mid].receiver

\* C17: a mark-message-read from a caller who is not the message's receiver,
\* or for an id that is not stored, changes no field of any stored message
\* and emits no messageRead.
ForeignMarkReadIgnored == [][RefusedChangesNothing /\ OnlyReceiverMarks]_vars

\* one connection, which sent one message to another user, has had a third
\* event handled to its end that was neither a send (one message stored) nor
\* a fetch (no privateMessages reply) nor a connect or disconnect: a
\* mark-message-read by the sender, for that message or for an id that is not
\* stored, which left the message unread
ForeignMarkReadWitness ==
  /\ tasks = EmptyBag /\ nops = 3
  /\ Len(clients) = 1 /\ clients[1].open
  /\ DOMAIN msgs = {1}
  /\ msgs[1].sender = UserOf(1) /\ msgs[1].receiver # UserOf(1)
  /\ \A i \in Positions : events[i].ev # "privateMessages"
  /\ ~msgs[1].isRead /\ msgs[1].readAt = 0

\* ---------------------------------------------------------------------- C18
\* C18: at most one file message is created per upload session, however the
\* upload-chunk handlers of the session interleave at their awaits.
OneMessagePerUpload ==
  \A u \in DOMAIN started : Cardinality(created[u]) <= 1

\* ---------------------------------------------------------------------- C19
\* no connect or disconnect handler is suspended
Quiescent == \A t \in Pending : t.kind \notin {"conn", "disc"}

\* C19: in every quiescent state the stored isOnline of a user is true
\* exactly when the registry holds a connection of that user.
OnlineIffRegistered ==
  Quiescent => \A u \in Users : dbOnline[u] <=> Registered(u) # {}

\* ---------------------------------------------------------------------- C20
\* every file message of a session is from the user who started the session
FileFromStarter ==
  \A u \in DOMAIN started :
    \A m \in created[u] \cap DOMAIN msgs : msgs[m].sender = started[u].by

\* a cancel-upload by another user than the one who started the session
\* leaves the session in place
ForeignCancelKeepsSession ==
  \A c \in DOMAIN clients, u \in DOMAIN started :
    (HandleCancelUpload(c, u) /\ UserOf(c) # started[u].by) =>
      (u \in DOMAIN tempUploads => u \in DOMAIN tempUploads')

\* C20: the file message of an upload session is from the user who issued
\* its start-upload, and an upload-chunk or cancel-upload from another user
\* neither changes that nor discards the session.
UploadBelongsToStarter ==
  /\ []FileFromStarter
  /\ [][ForeignCancelKeepsSession]_vars

====
